---- MODULE Spec2Model ----
(***************************************************************************)
(* kvm_net_stress.py: the stall-detection-and-recovery control loop.       *)
(*                                                                         *)
(* One control thread (main -> stress -> restart_guest) runs beside the    *)
(* external processes it starts: the ping probe, the xargs dispatcher and  *)
(* its wget workers, and the guest whose power state virsh reports.        *)
(* Time is counted in half seconds: LOG_DELAY = 0.5 s is 1, TIMEOUT =      *)
(* 3.0 s is 6.  The clock advances in the time.sleep calls.                *)
(***************************************************************************)
EXTENDS Integers, Sequences, FiniteSets, TLC

\* ---------------------------------------------------------------- constants
TIMEOUT == 6
LOG_DELAY == 1
ShutdownPollDelay == 1
OffSettleDelay == 2
ReadyBackoff == 2

\* ------------------------------------------------------------------- bounds
MaxTime == 8
MaxPing == 2
MaxSeq == 2
ProcCount == 2

Workers == 1..ProcCount
Guest == "guest"
OtherGuest == "other"
BodySizes == {2}
PostSize == 1

VARIABLES
  pc,           \* position of the control thread
  stats,        \* the stats dict of main
  last_change,  \* stress: local
  last_size,    \* stress: local
  size,         \* stress: local, PING_FILE.size as sampled by the current poll
  state,        \* restart_guest: local, the last kvm_state result
  now,          \* the wall clock, time.time()
  pingFile,     \* PING_FILE: the lines ping has appended
  ping,         \* the ping process is alive
  disp,         \* p, the xargs dispatcher of the current batch
  workers,      \* the wget workers of the batch launched last
  wgetFiles,    \* wget_files: the last line of each (stripped) worker log
  orphans,      \* per log file, workers of earlier batches that still run
  power,        \* the guest's power state as libvirt knows it
  acpi,         \* a shutdown request is pending in the guest
  scratch,      \* the scratch files that exist
  h,            \* history of the session, read by the properties only
  it            \* history of the current iteration, read by the properties only

vars == << pc, stats, last_change, last_size, size, state, now, pingFile, ping,
           disp, workers, wgetFiles, orphans, power, acpi, scratch, h, it >>

prog == << pc, stats, last_change, last_size, size, state >>
batch == << disp, workers, wgetFiles, orphans >>
guestv == << power, acpi >>

\* ------------------------------------------------------------ pure helpers
Last(s) == s[Len(s)]

RECURSIVE SumOver(_, _)
SumOver(f, S) ==
  IF S = {} THEN 0
  ELSE LET x == CHOOSE y \in S : TRUE IN f[x] + SumOver(f, S \ {x})

\* A line of ping output: "reply" starts with '64 bytes from <target>',
\* "other" is any other line (the PING header, unreachable notices, ...).
PingLines == {"reply", "other"}

\* line 125: .startswith('64 bytes from %s' % target)
StartsWithReply(line) == line = "reply"

PingSizeBugOtherFile(file) == 0
\* line 124: PING_FILE.size
PingSize(file) == Len(file)

PingFailedBug(file) == file /= << >> /\ StartsWithReply(Last(file))
\* line 125: PING_FILE.lines() and not PING_FILE.lines()[-1].startswith(...)
\* (an empty first read short-circuits; otherwise the second read decides, so
\* one read at the moment of the decision yields the same outcomes)
PingFailed(file) == file /= << >> /\ ~StartsWithReply(Last(file))

IsHangBugGeq(sz, lsz, t, lch, failed) == (sz = lsz /\ (t - lch) >= TIMEOUT) \/ failed
\* line 126: (size == last_size and (time.time() - last_change) > TIMEOUT) or ping_failed
IsHang(sz, lsz, t, lch, failed) == (sz = lsz /\ (t - lch) > TIMEOUT) \/ failed

\* line 129: the hang is logged with ping_failed, the only record of its reason
HangReason(failed) == IF failed THEN "probe-failure" ELSE "no-progress"

\* Lines of a worker log, as the last line of the stripped file.
NoLine == [kind |-> "empty", bytes |-> 0]
ErrorLine == [kind |-> "error", bytes |-> 0]
SavedLine(n) == [kind |-> "saved", bytes |-> n]

\* line 114: "`/dev/null' saved" in i
HasSaved(line) == line.kind = "saved"

\* line 114: all(... for i in last_lines)
AllSaved(files) == \A w \in Workers : HasSaved(files[w])

\* line 116: int(i.split('/')[-1].split(']')[0]) of '... saved [n/n]'
SavedBytes(line) == line.bytes

HungStatsBugTwice(st, t) == [st EXCEPT !.last_hang = t, !.hanged = @ + 2]
\* lines 127-128
HungStats(st, t) == [st EXCEPT !.last_hang = t, !.hanged = @ + 1]

CompletedStatsBugUp(st, files) ==
  [st EXCEPT !.down = @ + SumOver([w \in Workers |-> SavedBytes(files[w])], Workers),
             !.up = @ + PostSize,
             !.completed = @ + 1]
\* lines 116-118
CompletedStats(st, files) ==
  [st EXCEPT !.down = @ + SumOver([w \in Workers |-> SavedBytes(files[w])], Workers),
             !.up = @ + PostSize * ProcCount,
             !.completed = @ + 1]

\* line 70: the output of 'virsh list --all': two header lines, then a row
\* per domain.  A transient domain leaves the list when it is shut down.
VirshList ==
  << [name |-> "Id", state |-> "State"], [name |-> "----", state |-> "----"],
     [name |-> OtherGuest, state |-> "running"] >>
  \o (IF power = "gone" THEN << >> ELSE << [name |-> Guest, state |-> power] >>)

\* lines 69-76
kvm_state(lines, guest) ==
  LET rows == SubSeq(lines, 3, Len(lines))
      found == SelectSeq(rows, LAMBDA r : r.name = guest)
  IN IF found /= << >> THEN found[1].state ELSE "COULD NOT DETECT STATE"

IsOffBug(s) == s /= "running"
IsOffBugNever(s) == FALSE
\* line 84: state == 'shut off'
IsOff(s) == s = "shut off"

\* Outcomes of one readiness attempt: wget's exit status and whether its
\* stderr carries the save marker.
ReturnCodes == {0, 4}
ErrOutputs == {"saved", "timeout"}

AttemptOkBug(rc, err) == rc = 0 \/ err = "saved"
\* line 96: p.returncode == 0 and "`/dev/null' saved" in err
AttemptOk(rc, err) == rc = 0 /\ err = "saved"

ScratchFiles ==
  {<< "POST_FILE", 0 >>, << "ARG_FILE", 0 >>, << "PING_FILE", 0 >>}
  \cup {<< "wget_output", w >> : w \in Workers}

\* line 168: the order in which the finally block removes them
RemoveOrder ==
  << << "POST_FILE", 0 >>, << "ARG_FILE", 0 >>, << "PING_FILE", 0 >> >>
  \o [w \in 1..ProcCount |-> << "wget_output", w >>]

BatchPcs == {"launch", "poll", "decide", "sleep", "kill"}
RecoveryPcs == {"rg_shutdown", "rg_query", "rg_wait", "rg_offsleep", "rg_start",
                "rg_probe", "rg_backoff"}
EndPcs == {"done"}

\* --------------------------------------------------------------------- Init
\* The state main has built when it enters the try block (lines 158-162).
InitStats == [seq |-> 0, down |-> 0, up |-> 0, last_hang |-> 0, start |-> 0,
              hanged |-> 0, completed |-> 0]

InitH == [launches |-> 0, kills |-> 0, recoveries |-> 0, readies |-> 0,
          shutdowns |-> 0, starts |-> 0, exit |-> "none"]

NoAttempt == [rc |-> -1, err |-> "none"]

\* The hang signals as they stood at the poll that found the dispatcher
\* finished: the latest liveness sample a failure, the no-progress timeout
\* exceeded.
NoSignals == [failed |-> FALSE, stale |-> FALSE]

\* The history of an iteration that begins at time t with statistics st.
\* afterReady: "no" when the iteration does not follow a recovery, else
\* "stale" until ping appends a line after the recovery has returned, and
\* "fresh" from then on.
InitIt(st, t) ==
  [snap |-> st, watchStart |-> t, verdict |-> "none", reason |-> "none",
   verdictTime |-> t, prevLen |-> -1, runStart |-> t, pre |-> TRUE,
   sample |-> "unread",
   rgShutdowns |-> 0, rgStarts |-> 0, rgWaits |-> 0, rgNonOff |-> 0,
   startRead |-> "none", attempt |-> NoAttempt, atEnd |-> NoSignals,
   afterReady |-> "no"]

Init ==
  /\ pc = "iter"
  /\ stats = InitStats
  /\ last_change = 0
  /\ last_size = 0
  /\ size = 0
  /\ state = "none"
  /\ now = 0
  /\ pingFile = << >>
  /\ ping = TRUE
  /\ disp = "none"
  /\ workers = [w \in Workers |-> "none"]
  /\ wgetFiles = [w \in Workers |-> NoLine]
  /\ orphans = [w \in Workers |-> 0]
  /\ power = "running"
  /\ acpi = FALSE
  /\ scratch = ScratchFiles
  /\ h = InitH
  /\ it = InitIt(InitStats, 0)

\* The history of an iteration once its watch has given a verdict: what the
\* polls saw is forgotten.
Verdict(i) ==
  [InitIt(i.snap, i.watchStart) EXCEPT !.verdict = i.verdict, !.reason = i.reason,
                                       !.verdictTime = i.verdictTime, !.pre = i.pre]

\* lines 167-170, main's finally block: the scratch files are removed in
\* order, then the ping process is killed, and the session is over.
\* path.remove() is os.remove, which raises OSError for a file that cannot be
\* unlinked: k is the position of the file whose removal raises (0: none
\* does).  The exception leaves the block, so the files from k on stay and
\* line 170 is not reached.
Finally ==
  /\ \E k \in 0..Len(RemoveOrder) :
       IF k = 0
       THEN /\ scratch' = scratch \ {RemoveOrder[i] : i \in 1..Len(RemoveOrder)}
            /\ ping' = FALSE
       ELSE /\ scratch' = scratch \ {RemoveOrder[i] : i \in 1..(k - 1)}
            /\ ping' = ping
  /\ pc' = "done"

\* The locals of stress and restart_guest exist only while these run.
NoLocals ==
  /\ last_change' = 0
  /\ last_size' = 0
  /\ size' = 0
  /\ state' = "none"

\* ------------------------------------------------------------- main, stress
NextSeqBugSkip(n) == n + 2
\* line 164: itertools.count(1)
NextSeq(n) == n + 1

\* lines 164-165: the next sequence number
main_iter ==
  /\ pc = "iter"
  /\ stats.seq < MaxSeq
  /\ stats' = [stats EXCEPT !.seq = NextSeq(@)]
  /\ pc' = "launch"
  /\ it' = [InitIt(stats', now) EXCEPT !.afterReady = it.afterReady]
  /\ UNCHANGED << last_change, last_size, size, state, now, pingFile, ping,
                  batch, guestv, scratch, h >>

ResetChangeBugKeep(t, lch) == << lch, 0 >>
\* lines 104-105: last_change = time.time(); last_size = 0
ResetChange(t, lch) == << t, 0 >>

\* lines 103-109: the clock of the watch is reset and the batch is started.
\* xargs -P proc_count starts one wget per log file; each wget truncates its
\* log.  Workers of the previous batch that still run are not waited for.
stress_launch ==
  /\ pc = "launch"
  /\ last_change' = ResetChange(now, last_change)[1]
  /\ last_size' = ResetChange(now, last_change)[2]
  /\ disp' = "running"
  /\ workers' = [w \in Workers |-> "running"]
  /\ wgetFiles' = [w \in Workers |-> NoLine]
  /\ orphans' = [w \in Workers |-> orphans[w] + (IF workers[w] = "running" THEN 1 ELSE 0)]
  /\ pc' = "poll"
  /\ h' = [h EXCEPT !.launches = @ + 1]
  /\ UNCHANGED << stats, size, state, now, pingFile, ping, guestv, scratch, it >>

IsRunningBugAlways(d) == TRUE
\* line 111: p.poll() is None
IsRunning(d) == d = "running"

\* lines 111-124: p.poll(); a finished dispatcher ends the iteration
\* (Completed, or the fatal exit), a running one has the ping log's size sampled.
stress_poll ==
  /\ pc = "poll"
  /\ IF ~IsRunning(disp)
     THEN /\ LET signals == [failed |-> PingFailed(pingFile),
                             stale |-> PingSize(pingFile) = last_size
                                       /\ now - last_change > TIMEOUT]
             IN IF disp = "exit0" /\ AllSaved(wgetFiles)
                THEN /\ stats' = CompletedStats(stats, wgetFiles)
                     /\ pc' = "iter"
                     /\ it' = [Verdict(it) EXCEPT !.verdict = "Completed",
                                                  !.atEnd = signals]
                     /\ UNCHANGED << h, ping, scratch >>
                ELSE /\ Finally
                     /\ it' = [Verdict(it) EXCEPT !.verdict = "Fatal",
                                                  !.atEnd = signals]
                     /\ h' = [h EXCEPT !.exit = "fatal"]
                     /\ UNCHANGED stats
          /\ NoLocals
     ELSE /\ size' = PingSize(pingFile)
          /\ pc' = "decide"
          /\ it' = [it EXCEPT !.prevLen = Len(pingFile),
                              !.runStart = IF Len(pingFile) > it.prevLen THEN now ELSE @]
          /\ UNCHANGED << stats, last_change, last_size, state, h, ping, scratch >>
  /\ UNCHANGED << now, pingFile, batch, guestv >>

NextChangeBugAlways(sz, lsz, t, lch) == << t, sz >>
\* lines 134-136
NextChange(sz, lsz, t, lch) == IF sz /= lsz THEN << t, sz >> ELSE << lch, lsz >>

\* lines 125-143: the liveness sample is read and the hang rule applied
stress_decide ==
  /\ pc = "decide"
  /\ LET failed == PingFailed(pingFile)
         hang == IsHang(size, last_size, now, last_change, failed)
         success == pingFile /= << >> /\ Last(pingFile) = "reply"
         seen == [it EXCEPT !.sample = IF pingFile = << >> THEN "none"
                                      ELSE IF Last(pingFile) = "reply" THEN "success"
                                      ELSE "failure",
                            !.pre = @ /\ success /\ (now - it.runStart <= TIMEOUT)]
     IN IF hang
        THEN /\ stats' = HungStats(stats, now)
             /\ pc' = "kill"
             /\ it' = [seen EXCEPT !.verdict = "Hung", !.reason = HangReason(failed),
                                   !.verdictTime = now]
             /\ UNCHANGED << last_change, last_size >>
        ELSE /\ last_change' = NextChange(size, last_size, now, last_change)[1]
             /\ last_size' = NextChange(size, last_size, now, last_change)[2]
             /\ pc' = "sleep"
             /\ it' = seen
             /\ UNCHANGED stats
  /\ UNCHANGED << size, state, now, pingFile, ping, batch, guestv, scratch, h >>

\* line 144
stress_sleep ==
  /\ pc = "sleep"
  /\ now + LOG_DELAY <= MaxTime
  /\ now' = now + LOG_DELAY
  /\ pc' = "poll"
  /\ it' = [it EXCEPT !.sample = "unread"]
  /\ UNCHANGED << stats, last_change, last_size, size, state, pingFile, ping,
                  batch, guestv, scratch, h >>

KillPidBugReaped(d) == "killed"
\* 'kill -9 <pid>' reaches the process with that pid; a dispatcher that has
\* already exited is an unreaped zombie, for which the signal changes nothing.
KillPid(d) == IF d = "running" THEN "killed" ELSE d

stress_kill_skip ==
  /\ pc = "kill"
  /\ pc' = "rg_shutdown"
  /\ it' = Verdict(it)
  /\ NoLocals
  /\ UNCHANGED << stats, now, pingFile, ping, batch, guestv, scratch, h >>
\* lines 130-132: the dispatcher is killed, then restart_guest is called.
\* stress reads none of its locals after line 126, so they are dropped here.
stress_kill ==
  /\ pc = "kill"
  /\ disp' = KillPid(disp)
  /\ pc' = "rg_shutdown"
  /\ h' = [h EXCEPT !.kills = @ + 1]
  /\ it' = Verdict(it)
  /\ NoLocals
  /\ UNCHANGED << stats, now, pingFile, ping, workers, wgetFiles, orphans,
                  guestv, scratch >>

\* ------------------------------------------------------------ restart_guest
\* lines 80-81: virsh shutdown asks the guest to power off
rg_shutdown ==
  /\ pc = "rg_shutdown"
  /\ acpi' = (power = "running" \/ acpi)
  /\ pc' = "rg_query"
  /\ h' = [h EXCEPT !.recoveries = @ + 1, !.shutdowns = @ + 1]
  /\ it' = [it EXCEPT !.rgShutdowns = @ + 1]
  /\ UNCHANGED << stats, last_change, last_size, size, state, now, pingFile,
                  ping, batch, power, scratch >>

\* lines 83-85: one power-state query
rg_query ==
  /\ pc = "rg_query"
  /\ state' = kvm_state(VirshList, Guest)
  /\ pc' = IF IsOff(state') THEN "rg_offsleep" ELSE "rg_wait"
  /\ it' = [it EXCEPT !.rgNonOff = IF state' /= "shut off" THEN @ + 1 ELSE @]
  /\ UNCHANGED << stats, last_change, last_size, size, now, pingFile, ping,
                  batch, guestv, scratch, h >>

rg_wait_bug ==
  /\ pc = "rg_wait"
  /\ now + ShutdownPollDelay <= MaxTime
  /\ now' = now + ShutdownPollDelay
  /\ pc' = "rg_offsleep"
  /\ it' = [it EXCEPT !.rgWaits = @ + 1]
  /\ UNCHANGED << stats, last_change, last_size, size, state, pingFile, ping,
                  batch, guestv, scratch, h >>
\* lines 86-87: not off yet: log, wait, poll again
rg_wait ==
  /\ pc = "rg_wait"
  /\ now + ShutdownPollDelay <= MaxTime
  /\ now' = now + ShutdownPollDelay
  /\ pc' = "rg_query"
  /\ it' = [it EXCEPT !.rgWaits = @ + 1]
  /\ UNCHANGED << stats, last_change, last_size, size, state, pingFile, ping,
                  batch, guestv, scratch, h >>

\* line 88
rg_offsleep ==
  /\ pc = "rg_offsleep"
  /\ now + OffSettleDelay <= MaxTime
  /\ now' = now + OffSettleDelay
  /\ pc' = "rg_start"
  /\ it' = [it EXCEPT !.rgWaits = 0, !.rgNonOff = 0]
  /\ UNCHANGED << stats, last_change, last_size, size, state, pingFile, ping,
                  batch, guestv, scratch, h >>

\* lines 89-90: virsh start
rg_start ==
  /\ pc = "rg_start"
  /\ power' = IF power = "shut off" THEN "running" ELSE power
  /\ pc' = "rg_probe"
  /\ h' = [h EXCEPT !.starts = @ + 1]
  /\ it' = [it EXCEPT !.rgStarts = @ + 1, !.startRead = state]
  /\ UNCHANGED << stats, last_change, last_size, size, state, now, pingFile,
                  ping, batch, acpi, scratch >>

\* lines 92-98: one readiness attempt; success returns from restart_guest and
\* from stress (line 133)
rg_probe ==
  /\ pc = "rg_probe"
  /\ \E rc \in ReturnCodes, err \in ErrOutputs :
       /\ it' = [it EXCEPT !.attempt = [rc |-> rc, err |-> err],
                           !.afterReady = IF AttemptOk(rc, err) THEN "stale" ELSE @]
       /\ IF AttemptOk(rc, err)
          THEN /\ pc' = "iter"
               /\ h' = [h EXCEPT !.readies = @ + 1]
               /\ NoLocals
          ELSE /\ pc' = "rg_backoff"
               /\ UNCHANGED << h, last_change, last_size, size, state >>
  /\ UNCHANGED << stats, now, pingFile, ping, batch, guestv, scratch >>

\* line 99
rg_backoff ==
  /\ pc = "rg_backoff"
  /\ now + ReadyBackoff <= MaxTime
  /\ now' = now + ReadyBackoff
  /\ pc' = "rg_probe"
  /\ it' = [it EXCEPT !.attempt = NoAttempt]
  /\ UNCHANGED << stats, last_change, last_size, size, state, pingFile, ping,
                  batch, guestv, scratch, h >>

\* lines 81, 70, 90: check_output raises CalledProcessError when virsh exits
\* with a non-zero status; the exception leaves stress for main's finally.
rg_error ==
  /\ pc \in {"rg_shutdown", "rg_query", "rg_start"}
  /\ Finally
  /\ h' = [h EXCEPT !.exit = "error"]
  /\ it' = Verdict(it)
  /\ NoLocals
  /\ UNCHANGED << stats, now, pingFile, batch, guestv >>

\* ------------------------------------------------------------ session end
\* lines 163-170: KeyboardInterrupt in any phase of the loop
interrupt ==
  /\ pc \notin EndPcs
  /\ Finally
  /\ h' = [h EXCEPT !.exit = "interrupt"]
  /\ it' = InitIt(stats, now)
  /\ NoLocals
  /\ UNCHANGED << stats, now, pingFile, batch, guestv >>

\* ------------------------------------------------------ external processes
\* line 161: ping appends one line per check to PING_FILE
ping_append ==
  /\ ping
  /\ Len(pingFile) < MaxPing
  /\ \E line \in PingLines : pingFile' = Append(pingFile, line)
  /\ it' = [it EXCEPT !.afterReady = IF @ = "stale" THEN "fresh" ELSE @]
  /\ UNCHANGED << prog, now, ping, batch, guestv, scratch, h >>

\* lines 107-108: a wget worker ends, its last log line telling how
worker_exit ==
  /\ \E w \in Workers :
       /\ workers[w] = "running"
       /\ \/ \E n \in BodySizes :
               /\ workers' = [workers EXCEPT ![w] = "saved"]
               /\ wgetFiles' = [wgetFiles EXCEPT ![w] = SavedLine(n)]
          \/ /\ workers' = [workers EXCEPT ![w] = "failed"]
             /\ wgetFiles' = [wgetFiles EXCEPT ![w] = ErrorLine]
  /\ UNCHANGED << prog, now, pingFile, ping, disp, orphans, guestv, scratch, h, it >>

\* line 108: xargs exits when all its workers have: 0 when all succeeded, 123 otherwise
dispatcher_exit ==
  /\ disp = "running"
  /\ \A w \in Workers : workers[w] /= "running"
  /\ disp' = IF \A w \in Workers : workers[w] = "saved" THEN "exit0" ELSE "exit123"
  /\ UNCHANGED << prog, now, pingFile, ping, workers, wgetFiles, orphans, guestv,
                  scratch, h, it >>

\* a worker of an earlier batch ends
orphan_exit ==
  /\ \E w \in Workers :
       /\ orphans[w] > 0
       /\ orphans' = [orphans EXCEPT ![w] = @ - 1]
  /\ UNCHANGED << prog, now, pingFile, ping, disp, workers, wgetFiles, guestv,
                  scratch, h, it >>

\* the guest acts on a shutdown request: it powers off (a transient domain
\* disappears from the list instead)
guest_step ==
  /\ acpi
  /\ power = "running"
  /\ power' \in {"shut off", "gone"}
  /\ acpi' = FALSE
  /\ UNCHANGED << prog, now, pingFile, ping, batch, scratch, h, it >>

Next ==
  \/ main_iter \/ stress_launch \/ stress_poll \/ stress_decide \/ stress_sleep
  \/ stress_kill
  \/ rg_shutdown \/ rg_query \/ rg_wait \/ rg_offsleep \/ rg_start \/ rg_probe
  \/ rg_backoff \/ rg_error
  \/ interrupt
  \/ ping_append \/ worker_exit \/ dispatcher_exit \/ orphan_exit
  \/ guest_step

Spec == Init /\ [][Next]_vars

\* The control thread: main, stress and restart_guest run as one sequential
\* Python thread, which the scheduler keeps running.
Control ==
  \/ main_iter \/ stress_launch \/ stress_poll \/ stress_decide \/ stress_sleep
  \/ stress_kill
  \/ rg_shutdown \/ rg_query \/ rg_wait \/ rg_offsleep \/ rg_start \/ rg_probe
  \/ rg_backoff

\* The guest acts on the shutdown request and its domain reads 'shut off'.
guest_off == guest_step /\ power' = "shut off"

\* A readiness attempt is answered with status zero and the save marker.
rg_ready == rg_probe /\ pc' = "iter"

\* The session while nothing ends it from outside: no interrupt arrives and
\* no virsh command exits with a non-zero status.
LiveNext ==
  \/ Control
  \/ ping_append \/ worker_exit \/ dispatcher_exit \/ orphan_exit
  \/ guest_step

\* The loop under a fair scheduler, with a guest that powers off when asked
\* and a web server that answers in the end.
LiveSpec ==
  /\ Init /\ [][LiveNext]_vars
  /\ WF_vars(Control)
  /\ WF_vars(guest_off)
  /\ SF_vars(rg_ready)

\* ------------------------------------------------------------------ claims
WatchPcs == {"poll", "decide", "sleep"}

\* The state right after a poll has applied the hang rule (lines 125-136): the
\* poll either goes on to sleep or has declared the hang and is about to kill.
Decided == pc \in {"sleep", "kill"}

\* stress has returned from an iteration that was declared Hung (line 133).
ReturnedHung == pc = "iter" /\ it.verdict = "Hung"

AllSinksEmpty == \A w \in Workers : wgetFiles[w] = NoLine

\* C1: while every poll of the watch has read a success sample and has been
\* taken no later than TIMEOUT after the last poll at which the sampled size
\* increased, the iteration is not declared Hung: the hang counter is not
\* incremented, the batch is not killed and recovery is not started.
C1_NoHangWhileProgressing ==
  it.pre =>
    /\ it.verdict /= "Hung"
    /\ stats.hanged = it.snap.hanged
    /\ pc \notin ({"kill"} \cup RecoveryPcs)

\* C1 witness: a watch that has gone on beyond TIMEOUT with every poll healthy.
C1_Witness ==
  /\ pc = "sleep"
  /\ it.pre
  /\ now - it.watchStart > TIMEOUT

\* C2 as stated: once the sampled size has been constant for longer than
\* TIMEOUT at a poll of a running batch, that poll declares Hung and the
\* hang's reason is no-progress whatever the liveness sample is.
C2_Original ==
  (Decided /\ now - it.runStart > TIMEOUT) =>
    (it.verdict = "Hung" /\ it.reason = "no-progress")

\* C2 amended: once the sampled size has been constant for longer than
\* TIMEOUT at a poll of a running batch, that poll declares Hung whatever the
\* liveness sample is; the hang is recorded as no-progress unless the sample
\* that this poll read is a failure, and then as a probe failure.
C2_HungAfterTimeout ==
  (Decided /\ now - it.runStart > TIMEOUT) =>
    /\ pc = "kill"
    /\ it.verdict = "Hung"
    /\ stats.hanged = it.snap.hanged + 1
    /\ (it.reason = "no-progress") = (it.sample /= "failure")

\* C2 witness: a no-progress hang declared while the latest sample is a success.
C2_Witness ==
  /\ pc = "kill"
  /\ it.reason = "no-progress"
  /\ it.sample = "success"
  /\ now - it.runStart > TIMEOUT

\* C3: a poll of a running batch that reads a failure as the most recent
\* liveness sample declares Hung with reason probe-failure at that very poll,
\* whatever the progress size and the no-progress clock are.
C3_ProbeFailureHangs ==
  (Decided /\ it.sample = "failure") =>
    /\ pc = "kill"
    /\ it.verdict = "Hung"
    /\ it.reason = "probe-failure"
    /\ stats.hanged = it.snap.hanged + 1

\* C3 witness: the hang is declared although the size has just increased
\* over the previous poll's and the timeout has not elapsed.
C3_Witness ==
  /\ pc = "kill"
  /\ it.sample = "failure"
  /\ last_size > 0
  /\ size > last_size
  /\ now - last_change <= TIMEOUT

C5_NeverTwoBatches == \A w \in Workers : orphans[w] = 0

\* C6: batch and recovery are ordered phases of one loop: a recovery's
\* shutdown command follows the kill of the hung batch, no batch is launched or
\* polled while a recovery is in progress, a batch that follows a hang is
\* launched after its recovery has reached Ready, and at most one recovery is
\* in progress.
C6_PhasesOrdered ==
  /\ h.shutdowns <= h.kills
  /\ h.recoveries - h.readies \in {0, 1}
  /\ pc \in RecoveryPcs =>
       /\ h.kills = stats.hanged
       /\ disp /= "running"
       /\ h.recoveries - h.readies = (IF pc = "rg_shutdown" THEN 0 ELSE 1)
  /\ pc \in ({"launch"} \cup WatchPcs) =>
       /\ h.recoveries = h.readies
       /\ h.readies = stats.hanged
  /\ h.launches <= h.readies + stats.completed + 1

\* C6 witness: a batch being polled that was launched after a recovery.
C6_Witness ==
  /\ pc = "decide"
  /\ h.launches = 2
  /\ h.readies = 1

\* C7: the start command is issued only after a power-state query has returned
\* exactly 'shut off'; any other value, 'COULD NOT DETECT STATE' included,
\* leaves the controller waiting to poll again.
C7_StartOnlyAfterOff ==
  /\ it.rgStarts > 0 => it.startRead = "shut off"
  /\ pc \in {"rg_offsleep", "rg_start"} => state = "shut off"
  /\ pc = "rg_wait" => (state /= "shut off" /\ it.rgStarts = 0)

\* C7 witness: an unknown guest keeps the controller polling.
C7_Witness ==
  /\ pc = "rg_wait"
  /\ state = "COULD NOT DETECT STATE"
  /\ it.rgWaits >= 1

\* C8: restart_guest returns only on a readiness attempt with exit status zero
\* and the save marker in its output; any other attempt is followed by the
\* backoff and another attempt.
C8_ReadyOnlyOnSuccess ==
  /\ ReturnedHung => (it.attempt.rc = 0 /\ it.attempt.err = "saved")
  /\ pc = "rg_backoff" =>
       /\ it.attempt /= NoAttempt
       /\ ~ (it.attempt.rc = 0 /\ it.attempt.err = "saved")

\* C8 witness: an attempt with status zero but no marker keeps it waiting.
C8_Witness ==
  /\ pc = "rg_backoff"
  /\ it.attempt.rc = 0
  /\ it.attempt.err /= "saved"

\* C9: when the power-state query has returned a non-off value n times and
\* then 'shut off', the controller has waited exactly n times; one recovery
\* issues the shutdown command once and the start command once, in that order.
C9_ExactRetries ==
  /\ pc = "rg_offsleep" => (state = "shut off" /\ it.rgWaits = it.rgNonOff)
  /\ pc = "rg_query" => it.rgWaits = it.rgNonOff
  /\ pc = "rg_wait" => it.rgWaits + 1 = it.rgNonOff
  /\ it.rgStarts <= it.rgShutdowns
  /\ it.rgShutdowns <= 1
  /\ (pc \in {"rg_probe", "rg_backoff"} \/ ReturnedHung) =>
       (it.rgShutdowns = 1 /\ it.rgStarts = 1)

\* C9 witness: three non-off reads, three waits, then off.
C9_Witness ==
  /\ pc = "rg_offsleep"
  /\ it.rgNonOff = 3
  /\ it.rgWaits = 3

\* C10: an iteration declared Hung adds exactly 1 to the hang counter, sets the
\* last-hang timestamp to the time of the verdict, runs recovery exactly once
\* and leaves the completed count and the byte counters as they were.
C10_HungIterationEffect ==
  /\ it.verdict = "Hung" =>
       stats = [it.snap EXCEPT !.hanged = @ + 1, !.last_hang = it.verdictTime]
  /\ ReturnedHung =>
       /\ it.rgShutdowns = 1
       /\ h.recoveries = stats.hanged
       /\ h.readies = stats.hanged

\* C10 witness: a hung iteration has returned, after an iteration that had
\* moved bytes.
C10_Witness ==
  /\ ReturnedHung
  /\ stats.completed = 1
  /\ stats.down > 0
  /\ it.verdictTime > 0

\* stress has returned from an iteration whose batch completed (line 123).
ReturnedCompleted == pc = "iter" /\ it.verdict = "Completed"

\* C11: an iteration that ends Completed adds exactly 1 to the completed
\* count, the sum of the byte totals of the workers' final lines to the
\* download counter and payload size times worker count to the upload counter;
\* the hang counter and the last-hang timestamp stay as they were, nothing is
\* killed and no recovery is run.
C11_CompletedIterationEffect ==
  ReturnedCompleted =>
    /\ stats = [it.snap EXCEPT
                  !.completed = @ + 1,
                  !.down = @ + SumOver([w \in Workers |-> wgetFiles[w].bytes], Workers),
                  !.up = @ + PostSize * ProcCount]
    /\ disp = "exit0"
    /\ h.kills = it.snap.hanged
    /\ h.recoveries = it.snap.hanged
    /\ h.shutdowns = it.snap.hanged

\* C11 witness: a completed iteration has returned, after an iteration that
\* was declared Hung at a time other than the session's start.
C11_Witness ==
  /\ ReturnedCompleted
  /\ stats.hanged = 1
  /\ stats.last_hang > 0
  /\ stats.down > 0

\* C12 as stated: when the session has ended other than by an interrupt, the
\* iteration that ended it was classified as the fatal protocol violation; an
\* iteration declared Hung never ends the session.
C12_OnlyFatalHalts ==
  (pc = "done" /\ h.exit /= "interrupt") => it.verdict = "Fatal"

\* C13 as stated: when the session has ended, every scratch file has been
\* removed and the liveness probe has been killed, a failure to remove one
\* file notwithstanding.
C13_CleanupCompletes ==
  pc = "done" => (scratch = {} /\ ~ping)

\* C14 as stated, for a session that the fatal error has ended and whose
\* cleanup has run to its end: no process that the session started is still
\* running, neither the probe, nor the dispatcher, nor a worker of the
\* current or of an earlier batch.
C14_NoProcessLeft ==
  (pc = "done" /\ h.exit = "fatal" /\ scratch = {}) =>
    /\ ~ping
    /\ disp /= "running"
    /\ \A w \in Workers : workers[w] /= "running" /\ orphans[w] = 0

\* C16: the kill issued against a dispatcher that has already finished changes
\* nothing and raises no error: the dispatcher keeps its exit status and the
\* control thread goes on into recovery (unless an interrupt ends the session).
C16_KillOfFinishedIsNoop ==
  [][(pc = "kill" /\ disp /= "running" /\ pc' /= "kill") =>
       /\ disp' = disp
       /\ stats' = stats
       /\ \/ pc' = "rg_shutdown" /\ h'.exit = "none" /\ h'.kills = h.kills + 1
          \/ pc' = "done" /\ h'.exit = "interrupt"]_vars

\* C16 witness: recovery has been entered after the kill of a dispatcher that
\* had exited between the poll and the kill.
C16_Witness ==
  /\ pc = "rg_shutdown"
  /\ it.verdict = "Hung"
  /\ disp = "exit0"

\* C17: a poll that finds the dispatcher no longer running classifies the
\* iteration as Completed, successful or fatal, and never as Hung: the hang
\* counter, the last-hang timestamp and the count of kills stay as they were
\* and the hang rule is not evaluated, whatever the liveness sample and the
\* no-progress clock are at that poll.
C17_FinishedNeverHung ==
  [][(pc = "poll" /\ disp /= "running" /\ pc' /= "poll") =>
       /\ stats'.hanged = stats.hanged
       /\ stats'.last_hang = stats.last_hang
       /\ h'.kills = h.kills
       /\ \/ pc' = "iter" /\ it'.verdict = "Completed"
          \/ pc' = "done" /\ it'.verdict = "Fatal" /\ h'.exit = "fatal"
          \/ pc' = "done" /\ h'.exit = "interrupt"]_vars

\* C17 witness: an iteration classified Completed at a poll at which the
\* latest liveness sample was a failure, more than TIMEOUT after its launch.
C17_Witness ==
  /\ ReturnedCompleted
  /\ it.atEnd.failed
  /\ now - it.watchStart > TIMEOUT

\* C18: every iteration that returns has added exactly 1 to exactly one of
\* the completed count and the hang count, so an iteration starts with
\* seq = completed + hanged + 1; the two counts and the byte counters never
\* decrease, and a poll that goes on polling changes no field of stats.
C18_Bookkeeping ==
  /\ [](/\ pc = "launch" => stats.seq = stats.completed + stats.hanged + 1
        /\ pc = "iter" => stats.seq = stats.completed + stats.hanged
        /\ (ReturnedCompleted \/ ReturnedHung) =>
             /\ stats.completed + stats.hanged
                  = it.snap.completed + it.snap.hanged + 1
             /\ stats.completed - it.snap.completed \in {0, 1}
             /\ stats.hanged - it.snap.hanged \in {0, 1})
  /\ [][/\ stats'.completed >= stats.completed
        /\ stats'.hanged >= stats.hanged
        /\ stats'.down >= stats.down
        /\ stats'.up >= stats.up
        /\ (pc \in {"decide", "sleep"} /\ pc' \in {"sleep", "poll"}) => stats' = stats]_vars

\* C18 witness: the second iteration starts after a hung first one.
C18_Witness ==
  /\ pc = "launch"
  /\ stats.seq = 2
  /\ stats.hanged = 1

\* C19: the no-progress clock belongs to the iteration: the watch starts with
\* last_change at the time the iteration began and last_size 0, last_change
\* is never earlier than the iteration's beginning, and no iteration is
\* declared Hung for no-progress before more than TIMEOUT has passed since it
\* began.
C19_ClockPerIteration ==
  /\ (pc = "poll" /\ it.prevLen = -1) =>
       (last_change = it.watchStart /\ last_size = 0)
  /\ pc \in (WatchPcs \cup {"kill"}) => last_change >= it.watchStart
  /\ (it.verdict = "Hung" /\ it.reason = "no-progress") =>
       it.verdictTime - it.watchStart > TIMEOUT

\* C19 witness: a no-progress hang of the second iteration, which did not
\* begin at the session's start.
C19_Witness ==
  /\ pc = "kill"
  /\ it.reason = "no-progress"
  /\ stats.seq = 2
  /\ it.watchStart > 0

\* C20 as stated: an iteration that follows a recovery is not declared Hung
\* on a failure sample that was appended to the liveness log before the
\* recovery returned.
C20_NoStaleSample ==
  (Decided /\ it.afterReady = "stale") => it.reason /= "probe-failure"

\* The bounded clock stops the control thread at one of restart_guest's
\* sleeps while what it waits for has not been observed: the last power-state
\* query did not read off, or the last readiness attempt was not answered.
HorizonReached ==
  \/ pc = "rg_wait" /\ now + ShutdownPollDelay > MaxTime /\ state /= "shut off"
  \/ pc = "rg_offsleep" /\ now + OffSettleDelay > MaxTime
  \/ pc = "rg_backoff" /\ now + ReadyBackoff > MaxTime
       /\ ~(it.attempt.rc = 0 /\ it.attempt.err = "saved")
  \/ pc = "iter" /\ stats.seq >= MaxSeq

====
